---- MODULE Spec2Model ----
(***************************************************************************)
(* Model of the live transcription / translation session of               *)
(* src/app/services/assistant.py (class Assistant) as it is driven by     *)
(* websocket_listen in src/app/api/routes/media_processing.py.            *)
(*                                                                         *)
(* One asyncio event loop runs run() and, inside its TaskGroup, the three *)
(* coroutines transcribe_audio, manage_conversation and                   *)
(* process_openai_responses.  A step of the model is the code a coroutine *)
(* runs from one await to the next.  The speech provider's callbacks      *)
(* (on_message, on_utterance_end, on_close, on_error) run on the same     *)
(* loop and never suspend: put on an unbounded asyncio.Queue does not     *)
(* block.  When the TaskGroup aborts, every unfinished child gets its     *)
(* CancelledError in the same turn of the event loop and none of them     *)
(* catches it, so the abort, the except and the finally of run are one    *)
(* step.                                                                   *)
(***************************************************************************)
EXTENDS Integers, Sequences, FiniteSets, TLC

\* ---------------------------------------------------------------- bounds
\* What the session's peers do to it in one session: the events the speech
\* provider delivers, the audio frames the client sends, the events the
\* generation provider sends, and the failures (a connection that does not
\* open or that closes, a client that leaves, the timeout).
MaxInputs == 3

Sentences == {"", "a"}
Deltas    == {"x"}
Modes     == {"speed", "accuracy"}

\* the word start times of one fragment, in the order the provider lists them
WordSeqs == {<<0>>, <<1>>, <<0, 1>>}

\* the fragments the provider delivers; the words of a fragment the callback
\* does not look at (empty text, or not final) are left out of the enumeration
Fragments ==
  {f \in [text : Sentences, is_final : BOOLEAN, words : WordSeqs] :
     (f.text = "" \/ ~f.is_final) => f.words = <<0>>}

NoTime == 0 - 1       \* a message without a 'time' key

NormalClosure    == 1000   \* the code of websocket.close() without arguments
SetupFailureCode == 4002   \* websocket.close(code=4002, reason="Authorization failed")

Tasks == {"ta", "mc", "po"}
Ended == {"returned", "raised", "cancelled"}

VARIABLES
  mode,               \* query parameter given to Assistant(...)
  run_pc,             \* run: "connect", "taskgroup", "done"
  run_exit,           \* how run's try block was left: "none", "normal", "exception", "cancelled"
  run_cancel,         \* wait_for has cancelled run
  pc,                 \* position of each task
  finish_event,
  transcript_parts,
  transcript_queue,
  stime,
  openai_ws,          \* "None", "open", "closed_ok", "closed_err"
  oa_sent,            \* messages sent on the generation connection
  oa_inbox,           \* generation events not yet read by the receive loop
  oa_recv,            \* generation events read by the receive loop (history)
  oa_close_calls,     \* calls of openai_ws.close()
  dg_state,           \* "idle", "started", "failed", "finished"
  dg_finish_calls,
  n_final,            \* number of non-empty final fragments among them
  reported_at,        \* frames read when an error or close was first reported, or -1
  dg_raised,          \* a callback raised
  enq_log,            \* every event put on transcript_queue (history)
  client_alive,       \* the client's end of the websocket is still there
  client_state,       \* websocket.client_state
  client_msgs,        \* messages sent to the client
  relayed,            \* for each message in client_msgs, its origin
  client_close,       \* close codes websocket.close() was called with
  frames_sent,        \* audio frames the client has sent (the n-th frame is n)
  frames_read,        \* audio frames read by receive_bytes
  dg_frames,          \* audio frames written to the speech provider
  data,               \* transcribe_audio's local
  transcript,         \* manage_conversation's local
  response,           \* process_openai_responses's local
  log_,               \* order of the teardown calls (history)
  inputs              \* number of things the peers have done so far

vars == <<mode, run_pc, run_exit, run_cancel, pc, finish_event, transcript_parts, transcript_queue, stime,
          openai_ws, oa_sent, oa_inbox, oa_recv, oa_close_calls, dg_state,
          dg_finish_calls, n_final, reported_at, dg_raised, enq_log, client_alive,
          client_state, client_msgs, relayed, client_close, frames_sent,
          frames_read, dg_frames, data, transcript, response, log_, inputs>>

sessionVars == <<finish_event, transcript_parts, transcript_queue, stime, enq_log>>
runVars     == <<run_pc, run_exit, run_cancel>>
oaVars      == <<openai_ws, oa_sent, oa_inbox, oa_recv, oa_close_calls>>
dgVars      == <<dg_state, dg_finish_calls, n_final, reported_at, dg_raised, dg_frames>>
clientVars  == <<client_alive, client_state, client_msgs, relayed, client_close,
                 frames_sent, frames_read>>
localVars   == <<data, transcript, response>>

\* An event on transcript_queue is the dict the code builds (type, content,
\* time) and, for the properties, its origin: src, the number of the provider
\* event whose callback put it, and frag, the fragment it was built from.
NoFrag  == [text |-> "", is_final |-> FALSE, words |-> <<>>]
NoEvent == [type |-> "none", content |-> "", time |-> NoTime, src |-> 0,
            frag |-> NoFrag]
NoResp  == [type |-> "none", delta |-> ""]

\* Assistant.__init__ takes mode but never assigns self.mode
HasModeAttr == FALSE

Init ==
  /\ mode \in Modes
  /\ run_pc = "connect"
  /\ run_exit = "none"
  /\ run_cancel = FALSE
  /\ pc = [t \in Tasks |-> "notstarted"]
  /\ finish_event = FALSE
  /\ transcript_parts = <<>>
  /\ transcript_queue = <<>>
  /\ stime = 0
  /\ openai_ws = "None"
  /\ oa_sent = <<>>
  /\ oa_inbox = <<>>
  /\ oa_recv = <<>>
  /\ oa_close_calls = 0
  /\ dg_state = "idle"
  /\ dg_finish_calls = 0
  /\ n_final = 0
  /\ reported_at = 0 - 1
  /\ dg_raised = FALSE
  /\ enq_log = <<>>
  /\ client_alive = TRUE
  /\ client_state = "CONNECTED"
  /\ client_msgs = <<>>
  /\ relayed = <<>>
  /\ client_close = <<>>
  /\ frames_sent = <<>>
  /\ frames_read = <<>>
  /\ dg_frames = <<>>
  /\ data = 0
  /\ transcript = NoEvent
  /\ response = NoResp
  /\ log_ = <<>>
  /\ inputs = 0

\* ------------------------------------------------- asyncio.Queue (FIFO)
Put(q, ev) == Append(q, ev)
\* a queue that hands out the newest item first
GetNewest(q) == [item |-> q[Len(q)], rest |-> SubSeq(q, 1, Len(q) - 1)]
Get(q)     == [item |-> Head(q), rest |-> Tail(q)]

\* ------------------------------------------------------ pure helpers
RECURSIVE Join(_)
\* ' '.join(parts)
Join(parts) ==
  IF parts = <<>> THEN ""
  ELSE IF Len(parts) = 1 THEN parts[1]
  ELSE parts[1] \o " " \o Join(Tail(parts))

\* the start of the last word instead of the first
LastWordStart(words) == words[Len(words)]
\* result.channel.alternatives[0].words[0].start
FirstWordStart(words) == words[1]

\* the peers do one more thing
Input == inputs < MaxInputs /\ inputs' = inputs + 1

\* the provider has reported an error or a close
DgReported == reported_at >= 0

\* the speech connection delivers events between start() and finish()
DgDelivers ==
  /\ dg_state = "started"
  /\ Input

\* ------------------------------------- speech-provider callbacks
\* a test that lets every fragment through
IsEmptyNever(sentence) == FALSE
\* if len(sentence) == 0: return
IsEmpty(sentence) == Len(sentence) = 0

\* the accumulator started again with every final fragment
PartsRestarted(parts, sentence) == <<sentence>>
\* self.transcript_parts.append(sentence)
PartsAppended(parts, sentence) == Append(parts, sentence)

\* on_message(result): one transcript fragment
OnMessage(result) ==
  /\ DgDelivers
  /\ LET sentence == result.text
         final == result.is_final
         words == result.words
         src == Len(enq_log) + 1
         fin == [type |-> "transcript_final", content |-> sentence,
                 time |-> FirstWordStart(words), src |-> src, frag |-> result]
         itm == [type |-> "transcript_interim", content |-> sentence,
                 time |-> 0, src |-> src, frag |-> result]
     IN /\ n_final' = IF final /\ sentence # "" THEN n_final + 1 ELSE n_final
        /\ IF IsEmpty(sentence)
             THEN UNCHANGED <<transcript_parts, stime, transcript_queue, enq_log>>
             ELSE IF final
               THEN /\ transcript_parts' = PartsAppended(transcript_parts, sentence)
                    /\ stime' = IF stime = 0 THEN FirstWordStart(words) ELSE stime
                    /\ transcript_queue' = Put(transcript_queue, fin)
                    /\ enq_log' = Append(enq_log, fin)
               ELSE /\ transcript_queue' = Put(transcript_queue, itm)
                    /\ enq_log' = Append(enq_log, itm)
                    /\ UNCHANGED <<transcript_parts, stime>>
  /\ UNCHANGED <<mode, runVars, pc, finish_event, oaVars, dg_state,
                 dg_finish_calls, dg_raised, dg_frames, reported_at, clientVars,
                 localVars, log_>>

on_message == \E result \in Fragments : OnMessage(result)

\* on_utterance_end(utterance_end): reads self.mode, which __init__ never set
on_utterance_end ==
  /\ DgDelivers
  /\ LET src == Len(enq_log) + 1
         fin == [type |-> "transcript_final", content |-> Join(transcript_parts),
                 time |-> NoTime, src |-> src, frag |-> NoFrag]
     IN /\ IF ~HasModeAttr
             THEN /\ dg_raised' = TRUE
                  /\ UNCHANGED <<transcript_parts, transcript_queue, enq_log>>
             ELSE IF mode # "speed" /\ Len(transcript_parts) > 0
               THEN /\ transcript_parts' = <<>>
                    /\ transcript_queue' = Put(transcript_queue, fin)
                    /\ enq_log' = Append(enq_log, fin)
                    /\ UNCHANGED dg_raised
               ELSE UNCHANGED <<transcript_parts, transcript_queue, enq_log, dg_raised>>
  /\ UNCHANGED <<mode, runVars, pc, finish_event, stime, oaVars,
                 dg_state, dg_finish_calls, dg_frames, n_final, reported_at,
                 clientVars, localVars, log_>>

\* on_close(close) and on_error(error): print only
on_close_or_error ==
  /\ DgDelivers
  /\ reported_at' = IF DgReported THEN reported_at ELSE Len(frames_read)
  /\ UNCHANGED <<mode, runVars, pc, sessionVars, oaVars, dg_state,
                 dg_finish_calls, dg_raised, dg_frames, n_final, clientVars,
                 localVars, log_>>

\* ------------------------------------------------ client connection
\* websocket.send_json(msg): the dict as it is, without the model's origin tag
ClientMsg(ev) == [type |-> ev.type, content |-> ev.content, time |-> ev.time]


\* run has not left its try block: what the peers do later, nobody reads
SessionRunning == run_pc \in {"connect", "taskgroup"}

\* a send reaches the client while its end of the socket is there
CanSendToClient == client_alive

\* the client sends one audio frame
ClientSendsFrame ==
  /\ client_alive
  /\ SessionRunning
  /\ Input
  /\ frames_sent' = Append(frames_sent, Len(frames_sent) + 1)
  /\ UNCHANGED <<mode, runVars, pc, sessionVars, oaVars, dgVars,
                 client_alive, client_state, client_msgs, relayed, client_close,
                 frames_read, localVars, log_>>

\* the client goes away
ClientDisconnects ==
  /\ client_alive
  /\ SessionRunning
  /\ Input
  /\ client_alive' = FALSE
  /\ UNCHANGED <<mode, runVars, pc, sessionVars, oaVars, dgVars,
                 client_state, client_msgs, relayed, client_close, frames_sent,
                 frames_read, localVars, log_>>

\* ------------------------------------------------ transcribe_audio
\* the finally of the inner try: await dg_connection.finish()
DgFinish ==
  /\ dg_state' = "finished"
  /\ dg_finish_calls' = dg_finish_calls + 1
  /\ log_' = Append(log_, "dg_finish")

\* while not self.finish_event.is_set()
TaLoop == IF finish_event THEN "returned" ELSE "recv"

\* a loop that tries start again
AfterStartFailedRetries == "start"
\* start returned False: raise, and the outer except raises again
AfterStartFailed == "raised"

\* await dg_connection.start(options); False raises, the outer except re-raises
ta_start ==
  /\ pc["ta"] = "start"
  /\ \E ok \in BOOLEAN :
       /\ IF ok THEN UNCHANGED inputs ELSE Input
       /\ IF ok
         THEN /\ pc' = [pc EXCEPT !["ta"] = TaLoop]
              /\ IF TaLoop = "recv"
                   THEN /\ dg_state' = "started"
                        /\ UNCHANGED <<dg_finish_calls, log_>>
                   ELSE DgFinish
         ELSE /\ dg_state' = "failed"
              /\ pc' = [pc EXCEPT !["ta"] = AfterStartFailed]
              /\ UNCHANGED <<dg_finish_calls, log_>>
  /\ UNCHANGED <<mode, runVars, sessionVars, oaVars, n_final, reported_at,
                 dg_raised, dg_frames, clientVars, localVars>>

\* data = await self.websocket.receive_bytes()
ta_receive ==
  /\ pc["ta"] = "recv"
  /\ IF Len(frames_read) < Len(frames_sent)
       THEN /\ data' = frames_sent[Len(frames_read) + 1]
            /\ frames_read' = Append(frames_read, frames_sent[Len(frames_read) + 1])
            /\ pc' = [pc EXCEPT !["ta"] = "send"]
            /\ UNCHANGED <<client_state, dg_state, dg_finish_calls, log_>>
       ELSE \* WebSocketDisconnect: finally finish(), then the outer except re-raises
            /\ ~client_alive
            /\ client_state' = "DISCONNECTED"
            /\ DgFinish
            /\ pc' = [pc EXCEPT !["ta"] = "raised"]
            /\ UNCHANGED <<data, frames_read>>
  /\ UNCHANGED <<inputs, mode, runVars, sessionVars, oaVars, n_final, reported_at,
                 dg_raised, dg_frames, client_alive, client_msgs, relayed,
                 client_close, frames_sent, transcript, response>>

\* a write that puts the newest frame first
DgSendNewestFirst(frames, d) == <<d>> \o frames
\* what dg_connection.send(data) adds to what the provider has been sent
DgSend(frames, d) == Append(frames, d)

\* await dg_connection.send(data), then the loop test
ta_send ==
  /\ pc["ta"] = "send"
  /\ dg_frames' = DgSend(dg_frames, data)
  /\ pc' = [pc EXCEPT !["ta"] = TaLoop]
  /\ IF TaLoop = "returned"
       THEN DgFinish
       ELSE UNCHANGED <<dg_state, dg_finish_calls, log_>>
  /\ UNCHANGED <<inputs, mode, runVars, sessionVars, oaVars, n_final, reported_at,
                 dg_raised, clientVars, localVars>>

\* --------------------------------------------- manage_conversation
\* while not self.finish_event.is_set()
McLoop == IF finish_event THEN "returned" ELSE "get"

\* transcript = await self.transcript_queue.get()
mc_get ==
  /\ pc["mc"] = "get"
  /\ transcript_queue # <<>>
  /\ transcript' = Get(transcript_queue).item
  /\ transcript_queue' = Get(transcript_queue).rest
  /\ pc' = [pc EXCEPT !["mc"] = "relay"]
  /\ UNCHANGED <<inputs, mode, runVars, finish_event, transcript_parts,
                 stime, enq_log, oaVars, dgVars, clientVars, data, response, log_>>

\* a request to the generation provider whatever the type of the event
AfterRelayAlways(ev) == "oa_item"
\* a request that leaves out the conversation item
AfterRelaySkipsItem(ev) == IF ev.type = "transcript_final" THEN "oa_resp" ELSE McLoop
\* where manage_conversation goes after a successful send_json(transcript)
AfterRelay(ev) == IF ev.type = "transcript_final" THEN "oa_item" ELSE McLoop

\* a send_json whose failure is swallowed on the spot, the body going on
AfterFailedRelayGoesOn(ev) == AfterRelay(ev)
\* a handler of the failed send that still asks for the translation
AfterFailedRelayRequests(ev) == "oa_item"
\* where it goes when send_json raised: the except of the loop body, then
\* the loop test
AfterFailedRelay(ev) == McLoop

\* await self.websocket.send_json(transcript); an exception is caught by the
\* except of the loop body
mc_relay ==
  /\ pc["mc"] = "relay"
  /\ IF CanSendToClient
       THEN /\ client_msgs' = Append(client_msgs, ClientMsg(transcript))
            /\ relayed' = Append(relayed, [from |-> "queue", n |-> transcript.src])
            /\ pc' = [pc EXCEPT !["mc"] = AfterRelay(transcript)]
       ELSE /\ pc' = [pc EXCEPT !["mc"] = AfterFailedRelay(transcript)]
            /\ UNCHANGED <<client_msgs, relayed>>
  /\ UNCHANGED <<inputs, mode, runVars, sessionVars, oaVars, dgVars,
                 client_alive, client_state, client_close, frames_sent,
                 frames_read, localVars, log_>>

\* send_message_to_openai: await self.openai_ws.send(conversation_item)
mc_send_item ==
  /\ pc["mc"] = "oa_item"
  /\ IF openai_ws = "open"
       THEN /\ oa_sent' = Append(oa_sent, [type |-> "conversation.item.create",
                                           text |-> transcript.content,
                                           src |-> transcript.src])
            /\ pc' = [pc EXCEPT !["mc"] = "oa_resp"]
       ELSE \* except Exception: print
            /\ pc' = [pc EXCEPT !["mc"] = McLoop]
            /\ UNCHANGED oa_sent
  /\ UNCHANGED <<inputs, mode, runVars, sessionVars, openai_ws, oa_inbox,
                 oa_recv, oa_close_calls, dgVars, clientVars, localVars, log_>>

\* a submit that waits for the response to its request
AfterRequestAwaits == "oa_wait"
\* send_message_to_openai returns when response.create is sent (or has failed)
AfterRequest == McLoop

\* send_message_to_openai: await self.openai_ws.send({"type": "response.create"})
mc_send_response_create ==
  /\ pc["mc"] = "oa_resp"
  /\ IF openai_ws = "open"
       THEN oa_sent' = Append(oa_sent, [type |-> "response.create", text |-> "",
                                        src |-> transcript.src])
       ELSE UNCHANGED oa_sent
  /\ pc' = [pc EXCEPT !["mc"] = AfterRequest]
  /\ UNCHANGED <<inputs, mode, runVars, sessionVars, openai_ws, oa_inbox,
                 oa_recv, oa_close_calls, dgVars, clientVars, localVars, log_>>

\* ---------------------------------------- process_openai_responses
OaEvents ==
  [type : {"response.text.delta"}, delta : Deltas]
    \cup {[type |-> "response.text.done", delta |-> ""],
          [type |-> "session.updated", delta |-> ""]}

RECURSIVE CountType(_, _)
CountType(seq, ty) ==
  IF seq = <<>> THEN 0
  ELSE (IF Head(seq).type = ty THEN 1 ELSE 0) + CountType(Tail(seq), ty)

\* responses asked for and not yet completed by the provider
OaPending ==
  CountType(oa_sent, "response.create")
    - CountType(oa_recv \o oa_inbox, "response.text.done")

\* the generation provider sends one event
OaProviderSends ==
  /\ openai_ws = "open"
  /\ SessionRunning
  /\ Input
  /\ \E ev \in OaEvents :
       /\ ev.type \in {"response.text.delta", "response.text.done"} => OaPending > 0
       /\ oa_inbox' = Append(oa_inbox, ev)
  /\ UNCHANGED <<mode, runVars, pc, sessionVars, openai_ws, oa_sent,
                 oa_recv, oa_close_calls, dgVars, clientVars, localVars, log_>>

\* the generation connection closes: with a normal close code, or abnormally
OaConnectionCloses ==
  /\ openai_ws = "open"
  /\ SessionRunning
  /\ Input
  /\ \E how \in {"closed_ok", "closed_err"} : openai_ws' = how
  /\ UNCHANGED <<mode, runVars, pc, sessionVars, oa_sent, oa_inbox,
                 oa_recv, oa_close_calls, dgVars, clientVars, localVars, log_>>

\* every relayed event announced as a completion
AssistantMsgAlwaysDone(resp) ==
  [type |-> "assistant_done", content |-> "Completed", time |-> NoTime]
\* the message a generation event is relayed as
AssistantMsg(resp) ==
  IF resp.type = "response.text.delta"
    THEN [type |-> "assistant", content |-> resp.delta, time |-> NoTime]
    ELSE [type |-> "assistant_done", content |-> "Completed", time |-> NoTime]

\* every event of the provider handed on
RelayableAll(resp) == TRUE
\* the two branches of the if / elif on response.get('type')
Relayable(resp) == resp.type \in {"response.text.delta", "response.text.done"}

\* async for message in self.openai_ws: one turn of the iterator
\*   openai_ws is None       TypeError, caught by except Exception: returns
\*   a message is there      it is decoded and, by its type, relayed or skipped
\*   closed normally         the iteration ends: returns
\*   closed abnormally       ConnectionClosed: raises
po_read ==
  /\ pc["po"] = "read"
  /\ IF openai_ws = "None"
       THEN /\ pc' = [pc EXCEPT !["po"] = "returned"]
            /\ UNCHANGED <<oa_inbox, oa_recv, response>>
       ELSE IF oa_inbox # <<>>
         THEN /\ response' = Head(oa_inbox)
              /\ oa_inbox' = Tail(oa_inbox)
              /\ oa_recv' = Append(oa_recv, Head(oa_inbox))
              /\ pc' = [pc EXCEPT !["po"] =
                          IF Relayable(Head(oa_inbox)) THEN "relay" ELSE "read"]
         ELSE /\ openai_ws # "open"
              /\ pc' = [pc EXCEPT !["po"] =
                          IF openai_ws = "closed_ok" THEN "returned" ELSE "raised"]
              /\ UNCHANGED <<oa_inbox, oa_recv, response>>
  /\ UNCHANGED <<inputs, mode, runVars, sessionVars, openai_ws, oa_sent,
                 oa_close_calls, dgVars, clientVars, data, transcript, log_>>

\* await self.websocket.send_json({...}); a failure is caught by except Exception
\* outside the loop, and the coroutine returns
po_relay ==
  /\ pc["po"] = "relay"
  /\ IF CanSendToClient
       THEN /\ client_msgs' = Append(client_msgs, AssistantMsg(response))
            /\ relayed' = Append(relayed, [from |-> "openai", n |-> Len(oa_recv)])
            /\ pc' = [pc EXCEPT !["po"] = "read"]
       ELSE /\ pc' = [pc EXCEPT !["po"] = "returned"]
            /\ UNCHANGED <<client_msgs, relayed>>
  /\ UNCHANGED <<inputs, mode, runVars, sessionVars, oaVars, dgVars,
                 client_alive, client_state, client_close, frames_sent,
                 frames_read, localVars, log_>>

\* ------------------------------------------- run and websocket_listen
\* what connect_to_openai leaves in self.openai_ws: every exception is caught
\*   "ok"            connected and session.update sent
\*   "connect_fail"  websockets.connect raised: openai_ws stays None
\*   "send_fail"     connected, the send of session.update raised
ConnectOutcomes == {"ok", "connect_fail", "send_fail"}

WsAfterConnect(outcome) ==
  IF outcome = "ok" THEN "open"
  ELSE IF outcome = "connect_fail" THEN "None" ELSE "closed_err"

\* await self.connect_to_openai(), then the three create_task calls
run_connect ==
  /\ run_pc = "connect"
  /\ ~run_cancel
  /\ \E outcome \in ConnectOutcomes :
       /\ IF outcome = "ok" THEN UNCHANGED inputs ELSE Input
       /\ openai_ws' = WsAfterConnect(outcome)
       /\ oa_sent' = IF outcome = "ok"
                       THEN Append(oa_sent, [type |-> "session.update",
                                             text |-> "", src |-> 0])
                       ELSE oa_sent
       /\ run_pc' = "taskgroup"
       /\ pc' = [pc EXCEPT !["ta"] = "start", !["mc"] = McLoop, !["po"] = "read"]
  /\ UNCHANGED <<mode, run_exit, run_cancel,
                 sessionVars, oa_inbox, oa_recv, oa_close_calls, dgVars,
                 clientVars, localVars, log_>>

\* asyncio.wait_for(assistant.run(), timeout=21600) cancels run
Timeout ==
  /\ SessionRunning
  /\ ~run_cancel
  /\ Input
  /\ run_cancel' = TRUE
  /\ UNCHANGED <<mode, run_pc, run_exit, pc, sessionVars, oaVars, dgVars,
                 clientVars, localVars, log_>>

\* which ends of a child make the TaskGroup cancel the other children
AbortsGroup(p) == p = "raised"

\* a child that catches the cancellation and stays where it is
CancelledSwallowed(p) == p
\* what CancelledError at its current await makes of a child: no except of
\* the three coroutines catches it
Cancelled(p) == IF p \in Ended \cup {"notstarted"} THEN p ELSE "cancelled"

\* run leaves its try block: the TaskGroup aborts because a child has raised
\* or because run itself is cancelled (also while still in connect_to_openai).
\*   every unfinished child is cancelled; transcribe_audio, if it is inside
\*   its inner try, runs the finally with dg_connection.finish()
\*   except Exception catches the ExceptionGroup, not the CancelledError
\*   finally: if client_state != DISCONNECTED: await self.websocket.close()
\* and wait_for returns, or raises the TimeoutError websocket_listen catches.
run_teardown ==
  /\ SessionRunning
  /\ run_cancel \/ \E t \in Tasks : AbortsGroup(pc[t])
  /\ pc' = [t \in Tasks |-> Cancelled(pc[t])]
  /\ run_exit' = IF \E t \in Tasks : pc[t] = "raised" THEN "exception"
                 ELSE "cancelled"
  /\ run_pc' = "done"
  /\ LET finishes == pc["ta"] \in {"recv", "send"}
         closes   == client_state # "DISCONNECTED"
     IN /\ dg_state' = IF finishes THEN "finished" ELSE dg_state
        /\ dg_finish_calls' = IF finishes THEN dg_finish_calls + 1
                              ELSE dg_finish_calls
        /\ client_close' = IF closes THEN Append(client_close, NormalClosure)
                           ELSE client_close
        /\ log_' = log_ \o (IF finishes THEN <<"dg_finish">> ELSE <<>>)
                        \o (IF closes THEN <<"client_close">> ELSE <<>>)
  /\ UNCHANGED <<inputs, mode, run_cancel, sessionVars, oaVars, n_final, reported_at, dg_raised, dg_frames, client_alive,
                 client_state, client_msgs, relayed, frames_sent, frames_read,
                 localVars>>

Next ==
  \/ on_message
  \/ on_utterance_end
  \/ on_close_or_error
  \/ ClientSendsFrame
  \/ ClientDisconnects
  \/ ta_start
  \/ ta_receive
  \/ ta_send
  \/ mc_get
  \/ mc_relay
  \/ mc_send_item
  \/ mc_send_response_create
  \/ OaProviderSends
  \/ OaConnectionCloses
  \/ po_read
  \/ po_relay
  \/ run_connect
  \/ Timeout
  \/ run_teardown

Spec == Init /\ [][Next]_vars

\* ------------------------------------------- a session whose latch is set
\* Nothing in the program calls finish_event.set(): under Spec the loops'
\* "while not self.finish_event.is_set()" never ends them and the TaskGroup is
\* never left normally.  SpecLatch is the same session in which the holder of
\* the Assistant sets the event at some moment while run is under way.

\* self.finish_event.set()
set_finish_event ==
  /\ SessionRunning
  /\ ~finish_event
  /\ finish_event' = TRUE
  /\ UNCHANGED <<inputs, mode, runVars, pc, transcript_parts, transcript_queue,
                 stime, enq_log, oaVars, dgVars, clientVars, localVars, log_>>

\* the three children have returned: async with ends, then the finally of run
run_returns ==
  /\ run_pc = "taskgroup"
  /\ ~run_cancel
  /\ \A t \in Tasks : pc[t] = "returned"
  /\ run_pc' = "done"
  /\ run_exit' = "normal"
  /\ LET closes == client_state # "DISCONNECTED"
     IN /\ client_close' = IF closes THEN Append(client_close, NormalClosure)
                           ELSE client_close
        /\ log_' = log_ \o (IF closes THEN <<"client_close">> ELSE <<>>)
  /\ UNCHANGED <<inputs, mode, run_cancel, pc, sessionVars, oaVars, dgVars,
                 client_alive, client_state, client_msgs, relayed, frames_sent,
                 frames_read, localVars>>

NextLatch ==
  \/ on_message
  \/ on_utterance_end
  \/ on_close_or_error
  \/ ClientSendsFrame
  \/ ClientDisconnects
  \/ ta_start
  \/ ta_receive
  \/ ta_send
  \/ mc_get
  \/ mc_relay
  \/ mc_send_item
  \/ mc_send_response_create
  \/ OaProviderSends
  \/ OaConnectionCloses
  \/ po_read
  \/ po_relay
  \/ run_connect
  \/ Timeout
  \/ run_teardown
  \/ set_finish_event
  \/ run_returns

SpecLatch == Init /\ [][NextLatch]_vars

\* the event loop runs the TaskGroup's abort, and wait_for's cancellation, as
\* soon as they are due
FairSpec == Spec /\ WF_vars(run_teardown)

\* ====================================================== properties

\* positions of client_msgs that manage_conversation sent
QueueRelays == {i \in 1 .. Len(relayed) : relayed[i].from = "queue"}
\* positions of client_msgs that process_openai_responses sent
OpenAiRelays == {i \in 1 .. Len(relayed) : relayed[i].from = "openai"}

\* the place in enq_log of the event that provider event n put on the queue
EnqPos(n) == CHOOSE k \in 1 .. Len(enq_log) : enq_log[k].src = n

RECURSIVE MinOf(_)
MinOf(seq) ==
  IF Len(seq) = 1 THEN seq[1]
  ELSE LET m == MinOf(Tail(seq)) IN IF seq[1] < m THEN seq[1] ELSE m

\* C1: the transcript messages the client has received are, in order, events
\* of the queue's history, each at most once and none before an event that was
\* enqueued earlier.
C1_RelayInEnqueueOrder ==
  /\ \A i \in QueueRelays :
       /\ \E k \in 1 .. Len(enq_log) : enq_log[k].src = relayed[i].n
       /\ client_msgs[i].type = enq_log[EnqPos(relayed[i].n)].type
       /\ client_msgs[i].content = enq_log[EnqPos(relayed[i].n)].content
       /\ client_msgs[i].time = enq_log[EnqPos(relayed[i].n)].time
  /\ \A i, j \in QueueRelays :
       i < j => EnqPos(relayed[i].n) < EnqPos(relayed[j].n)

\* two events were relayed, the second enqueued while the first was waiting
C1_Witness ==
  /\ Cardinality(QueueRelays) = 2
  /\ Len(enq_log) = 2
  /\ transcript_queue = <<>>

\* C2: a generation request (conversation.item.create or response.create) is
\* on the wire only for a final event that the client has already been sent.
C2_RelayBeforeRequest ==
  \A m \in 1 .. Len(oa_sent) :
    oa_sent[m].type \in {"conversation.item.create", "response.create"} =>
      \E i \in QueueRelays :
        /\ relayed[i].n = oa_sent[m].src
        /\ client_msgs[i].type = "transcript_final"
        /\ client_msgs[i].content = enq_log[EnqPos(oa_sent[m].src)].content

C2_Witness ==
  \E m \in 1 .. Len(oa_sent) : oa_sent[m].type = "response.create"

\* the generation events the receive loop has read that are to be relayed
RelayableRecv ==
  SelectSeq(oa_recv, LAMBDA r : r.type \in {"response.text.delta", "response.text.done"})

\* the messages process_openai_responses has sent, in order
AssistantMsgs ==
  SelectSeq(client_msgs, LAMBDA m : m.type \in {"assistant", "assistant_done"})

\* C3: the assistant and assistant_done messages at the client are, in order
\* and one for one, the text-delta and text-done events read from the provider,
\* each delta with its text; only the event whose send is under way, or whose
\* send failed or was cancelled, is missing at the end.
C3_DeltasRelayedInOrder ==
  /\ Len(AssistantMsgs) <= Len(RelayableRecv)
  /\ Len(RelayableRecv) - Len(AssistantMsgs) <= 1
  /\ pc["po"] = "read" => Len(AssistantMsgs) = Len(RelayableRecv)
  /\ \A i \in 1 .. Len(AssistantMsgs) :
       IF RelayableRecv[i].type = "response.text.delta"
         THEN /\ AssistantMsgs[i].type = "assistant"
              /\ AssistantMsgs[i].content = RelayableRecv[i].delta
         ELSE AssistantMsgs[i].type = "assistant_done"
  /\ \A i \in OpenAiRelays :
       client_msgs[i].type \in {"assistant", "assistant_done"}

\* a delta and then the completion of the response were relayed
C3_Witness ==
  /\ Len(AssistantMsgs) = 2
  /\ AssistantMsgs[1].type = "assistant"
  /\ AssistantMsgs[2].type = "assistant_done"

FinalsEnqueued ==
  SelectSeq(enq_log, LAMBDA e : e.type = "transcript_final")

\* C4: in speed mode every non-empty final fragment has put exactly one
\* transcript_final event on the queue, in the step that delivered it, with the
\* fragment's text and its earliest word start time; and a final event reaches
\* the client only after every event enqueued before it.
C4_SpeedFinalImmediate ==
  mode = "speed" =>
    /\ Len(FinalsEnqueued) = n_final
    /\ \A k \in 1 .. Len(enq_log) :
         enq_log[k].type = "transcript_final" =>
           /\ enq_log[k].frag.is_final
           /\ enq_log[k].content = enq_log[k].frag.text
           /\ enq_log[k].time = MinOf(enq_log[k].frag.words)
    /\ \A k, l \in 1 .. Len(enq_log) : k < l => enq_log[k].src < enq_log[l].src
    /\ \A i \in QueueRelays :
         client_msgs[i].type = "transcript_final" =>
           \A k \in 1 .. EnqPos(relayed[i].n) - 1 :
             \E j \in QueueRelays : j < i /\ relayed[j].n = enq_log[k].src

\* an interim and then a two-word final were relayed in speed mode
C4_Witness ==
  /\ mode = "speed"
  /\ Len(enq_log) = 2
  /\ enq_log[1].type = "transcript_interim"
  /\ enq_log[2].type = "transcript_final"
  /\ Len(enq_log[2].frag.words) = 2
  /\ Cardinality(QueueRelays) = 2

\* C5: in accuracy mode a final fragment is never put on the queue by itself:
\* every transcript_final event is a concatenation flushed at an utterance-end
\* (it stems from no single fragment).
C5_AccuracyCoalesces ==
  mode = "accuracy" =>
    \A k \in 1 .. Len(enq_log) :
      enq_log[k].type = "transcript_final" => enq_log[k].frag = NoFrag

\* C6: when the generation connection could not be established, no loop is
\* ever started, no audio frame is read, and the client connection is closed
\* with the setup-failure code.
C6_SetupFailureEndsSession ==
  (run_pc # "connect" /\ openai_ws = "None") =>
    /\ \A t \in Tasks : pc[t] = "notstarted"
    /\ frames_read = <<>>
    /\ run_pc = "done" => client_close = <<SetupFailureCode>>

\* C7: the receive loop never ends normally on a generation connection that
\* has closed: a close, of either kind, ends it with a raised error.
C7_ProviderCloseIsFatal ==
  (openai_ws \in {"closed_ok", "closed_err"} /\ client_alive) =>
    pc["po"] # "returned"

\* C8: once the speech provider has reported an error or a close, the speech
\* loop is over: no audio frame read after the report is written to the
\* provider.
C8_SpeechFailureEndsLoop ==
  DgReported => Len(dg_frames) <= reported_at

\* C9: when one of the three loops has ended, by returning or by raising, the
\* group is about to cancel its siblings.
C9_EndedLoopCancelsSiblings ==
  \A t \in Tasks :
    (pc[t] \in {"returned", "raised"} /\ run_pc = "taskgroup") =>
      ENABLED run_teardown

\* the place of a teardown call in log_, 0 if it was not made
LogPos(what) ==
  IF \E i \in 1 .. Len(log_) : log_[i] = what
    THEN CHOOSE i \in 1 .. Len(log_) : log_[i] = what
    ELSE 0

\* C10: when run has exited, both provider connections have been closed, the
\* client connection has been closed unless it was already disconnected, and
\* the provider closes came first.
C10_TeardownClosesAll ==
  run_pc = "done" =>
    /\ dg_state = "started" => FALSE
    /\ dg_state = "finished" => dg_finish_calls >= 1
    /\ openai_ws # "None" => oa_close_calls >= 1
    /\ client_state # "DISCONNECTED" => client_close # <<>>
    /\ client_close # <<>> =>
         /\ dg_state = "finished" => LogPos("dg_finish") < LogPos("client_close")
         /\ openai_ws # "None" =>
              (LogPos("oa_close") > 0 /\ LogPos("oa_close") < LogPos("client_close"))

\* C11: when run has exited, close has been called exactly once on the client
\* connection, finish exactly once on the speech connection and close exactly
\* once on the generation connection.
C11_TeardownExactlyOnce ==
  run_pc = "done" =>
    /\ Len(client_close) = 1
    /\ dg_finish_calls = 1
    /\ oa_close_calls = 1

\* C12: a client disconnect ends transcribe_audio by a normal return, and run
\* does not leave its try block through the handler of an exception.
C12_DisconnectIsGraceful ==
  client_state = "DISCONNECTED" =>
    /\ pc["ta"] = "returned"
    /\ run_exit # "exception"

\* C13: when the timeout has ended the session, finish_event is set, every loop
\* has ended, and the client connection was closed with no other code than the
\* normal one.
C13_TimeoutIsCleanShutdown ==
  (run_cancel /\ run_pc = "done") =>
    /\ finish_event
    /\ \A t \in Tasks : pc[t] \in Ended \cup {"notstarted"}
    /\ \A i \in 1 .. Len(client_close) : client_close[i] = NormalClosure

\* C14: finish_event is set in every state in which the client has been found
\* disconnected, a loop has raised, the timeout has expired, or run has exited.
C14_LatchSetOnShutdown ==
  (\/ client_state = "DISCONNECTED"
   \/ \E t \in Tasks : pc[t] = "raised"
   \/ run_cancel
   \/ run_pc = "done") => finish_event

\* C15: while finish_event is set and the loops are running, no loop sits in a
\* wait that only a further input could end: each of the three, where it is
\* blocked, can take its next step.
C15_LatchStopsLoops ==
  (finish_event /\ run_pc = "taskgroup") =>
    /\ pc["ta"] = "recv" => ENABLED ta_receive
    /\ pc["mc"] = "get" => ENABLED mc_get
    /\ pc["po"] = "read" => ENABLED po_read

\* the events manage_conversation has taken from the queue
Dequeued == Len(enq_log) - Len(transcript_queue)

\* C16: manage_conversation stops at the first send to the client that fails:
\* of the events it has dequeued, all but the last one have reached the client.
C16_RelayFailureEndsLoop ==
  Dequeued - Cardinality(QueueRelays) <= 1

\* C17: the code the client connection is closed with tells why the session
\* ended: the normal code after the timeout, the setup-failure code when the
\* generation connection was never established, a third code when a provider
\* connection failed during the session, the normal code otherwise.
C17_CloseCodeTellsCause ==
  (run_pc = "done" /\ client_close # <<>>) =>
    LET setupFailed    == openai_ws = "None" /\ pc["po"] # "notstarted"
        providerFailed == pc["po"] = "raised" \/ dg_state = "failed"
        code           == client_close[1]
    IN IF run_cancel THEN code = NormalClosure
       ELSE IF setupFailed THEN code = SetupFailureCode
       ELSE IF providerFailed THEN code \notin {NormalClosure, SetupFailureCode}
       ELSE code = NormalClosure

\* the session is over: the speech provider has reported an error or a close,
\* the receive loop has ended on a generation connection that is closed or was
\* never opened, or run has exited
SessionEnded ==
  \/ run_pc = "done"
  \/ DgReported
  \/ pc["po"] \in {"returned", "raised"} /\ openai_ws # "open"

\* C18: once the session is over, no step sends the client another message.
C18_NoSendAfterEnd ==
  [][SessionEnded => client_msgs' = client_msgs]_vars

\* the final events the client has been sent
FinalsRelayed ==
  {i \in QueueRelays : client_msgs[i].type = "transcript_final"}

\* C19: neither kind of generation request has been sent more often than final
\* events were relayed to the client, no two requests of a kind stem from the
\* same event, and none was sent while only interim events were produced.
C19_RequestsOnlyForFinals ==
  /\ CountType(oa_sent, "conversation.item.create") <= Cardinality(FinalsRelayed)
  /\ CountType(oa_sent, "response.create") <= Cardinality(FinalsRelayed)
  /\ \A m, n \in 1 .. Len(oa_sent) :
       (m # n /\ oa_sent[m].type = oa_sent[n].type /\ oa_sent[m].src # 0)
         => oa_sent[m].src # oa_sent[n].src
  /\ FinalsEnqueued = <<>> =>
       \A m \in 1 .. Len(oa_sent) : oa_sent[m].type = "session.update"

\* an interim and a final event were relayed and one request was made
C19_Witness ==
  /\ Cardinality(QueueRelays) = 2
  /\ Cardinality(FinalsRelayed) = 1
  /\ CountType(oa_sent, "response.create") = 1

\* C20: once a non-empty final fragment has been delivered, stime is the
\* earliest word start time of the first of them, whatever came later.
C20_BaselineSetOnce ==
  FinalsEnqueued # <<>> => stime = MinOf(FinalsEnqueued[1].frag.words)

\* C21: the delivery of a fragment with empty text, final or not, leaves the
\* accumulator, the baseline timestamp, the queue and its history as they were.
C21_EmptyFragmentDiscarded ==
  [][\A r \in Fragments :
       (r.text = "" /\ OnMessage(r)) =>
         UNCHANGED <<transcript_parts, stime, transcript_queue, enq_log>>]_vars

\* nothing but transcript fragments has come in so far
OnlyFragmentsSoFar ==
  /\ run_pc = "taskgroup" /\ ~run_cancel
  /\ dg_state = "started" /\ ~DgReported /\ ~dg_raised
  /\ openai_ws = "open" /\ oa_inbox = <<>> /\ oa_recv = <<>>
  /\ client_alive /\ frames_sent = <<>>

\* two fragments were delivered, a final one and an empty one that left no trace
C21_Witness ==
  /\ OnlyFragmentsSoFar
  /\ inputs = 2
  /\ Len(enq_log) = 1
  /\ transcript_parts = <<"a">>

\* C22: every message at the client is a transcript_interim or transcript_final
\* taken from the queue, or an assistant / assistant_done made from a text-delta
\* / text-done event (the delta's text as content); an event of any other type
\* has produced no message.
C22_ClientMessageTypes ==
  /\ \A i \in 1 .. Len(client_msgs) :
       client_msgs[i].type \in {"transcript_interim", "transcript_final",
                                "assistant", "assistant_done"}
  /\ \A i \in QueueRelays :
       client_msgs[i].type \in {"transcript_interim", "transcript_final"}
  /\ \A i \in OpenAiRelays :
       LET ev == oa_recv[relayed[i].n]
       IN /\ ev.type \in {"response.text.delta", "response.text.done"}
          /\ ev.type = "response.text.delta" =>
               (client_msgs[i].type = "assistant" /\ client_msgs[i].content = ev.delta)
          /\ ev.type = "response.text.done" => client_msgs[i].type = "assistant_done"
  /\ \A i, j \in OpenAiRelays : i # j => relayed[i].n # relayed[j].n

\* an event of another type was read and skipped, then a delta was relayed
C22_Witness ==
  /\ Len(oa_recv) = 2
  /\ oa_recv[1].type = "session.updated"
  /\ oa_recv[2].type = "response.text.delta"
  /\ Cardinality(OpenAiRelays) = 1

\* C23: the frames written to the speech provider are the first frames read
\* from the client, unchanged and in order, all of them but at most the last;
\* the frames read are the first frames the client sent.
C23_FramesForwardedInOrder ==
  /\ Len(dg_frames) <= Len(frames_read)
  /\ Len(frames_read) - Len(dg_frames) <= 1
  /\ \A i \in 1 .. Len(dg_frames) : dg_frames[i] = frames_read[i]
  /\ Len(frames_read) <= Len(frames_sent)
  /\ \A i \in 1 .. Len(frames_read) : frames_read[i] = frames_sent[i]

\* two frames written, a third read and not yet written
C23_Witness ==
  /\ Len(dg_frames) = 2
  /\ Len(frames_read) = 3

\* C24: when the speech connection failed to start, transcribe_audio has
\* raised and stays so, no audio frame was read or written, and the session
\* is ending or has ended.
C24_StartFailureRaises ==
  dg_state = "failed" =>
    /\ pc["ta"] = "raised"
    /\ frames_read = <<>>
    /\ dg_frames = <<>>
    /\ run_pc = "done" \/ ENABLED run_teardown

\* the start failed and run has exited, the client connection closed
C24_Witness ==
  /\ dg_state = "failed"
  /\ run_pc = "done"
  /\ client_close = <<NormalClosure>>

\* run has exited with every loop over and the client connection closed
Closed ==
  /\ run_pc = "done"
  /\ \A t \in Tasks : pc[t] \in Ended
  /\ client_state = "DISCONNECTED" \/ client_close # <<>>

\* C25: after a loop has raised, the session gets to the closed state: run has
\* exited, every loop is over, manage_conversation included, and the client
\* connection is closed; and once run has exited that is so.
C25_RaiseLeadsToClosed ==
  /\ (\E t \in Tasks : pc[t] = "raised") ~> Closed
  /\ [](run_pc = "done" => \A t \in Tasks : pc[t] \in Ended \cup {"notstarted"})

\* the receive loop raised while manage_conversation waited on the queue, and
\* the session closed
C25_Witness ==
  /\ Closed
  /\ pc["po"] = "raised"
  /\ pc["mc"] = "cancelled"
  /\ pc["ta"] = "cancelled"

\* C26: for a transcript_final event that was dequeued and did not reach the
\* client, nothing has been sent to the generation provider.
C26_NoRequestAfterFailedRelay ==
  \A k \in 1 .. Dequeued :
    (/\ enq_log[k].type = "transcript_final"
     /\ ~ \E i \in QueueRelays : relayed[i].n = enq_log[k].src)
      => \A m \in 1 .. Len(oa_sent) : oa_sent[m].src # enq_log[k].src

\* the relay of a final event failed on an open generation connection and the
\* loop is back at the queue
C26_Witness ==
  /\ Dequeued = 1
  /\ enq_log[1].type = "transcript_final"
  /\ QueueRelays = {}
  /\ pc["mc"] = "get"
  /\ openai_ws = "open"

\* C27: manage_conversation never waits for a response: wherever it is, it is
\* at one of its own awaits, and each of them can complete whatever is still
\* outstanding at the generation provider (the queue's get as soon as an event
\* is there).
C27_SubmitDoesNotBlock ==
  run_pc = "taskgroup" =>
    /\ pc["mc"] \in {"get", "relay", "oa_item", "oa_resp"} \cup Ended
    /\ (pc["mc"] = "get" /\ transcript_queue # <<>>) => ENABLED mc_get
    /\ pc["mc"] = "relay" => ENABLED mc_relay
    /\ pc["mc"] = "oa_item" => ENABLED mc_send_item
    /\ pc["mc"] = "oa_resp" => ENABLED mc_send_response_create

\* two finals were relayed and the second request was sent before anything of
\* the first response had come
C27_Witness ==
  /\ Cardinality(FinalsRelayed) = 2
  /\ CountType(oa_sent, "response.create") = 2
  /\ OaPending = 2
  /\ oa_recv = <<>>
  /\ oa_inbox = <<>>

\* the messages after the first are whole requests: every conversation.item.create
\* is followed at once by the response.create of the same event
WholeRequests(seq) ==
  /\ \A m \in 2 .. Len(seq) :
       /\ seq[m].type \in {"conversation.item.create", "response.create"}
       /\ seq[m].type = "response.create" =>
            (seq[m - 1].type = "conversation.item.create" /\ seq[m - 1].src = seq[m].src)
       /\ seq[m].type = "conversation.item.create" =>
            (m < Len(seq) /\ seq[m + 1].type = "response.create")

\* the original statement of C28: whenever no request is under way, what was
\* sent to the generation provider is one session.update and then whole
\* requests.
C28_UpdateThenWholeRequests ==
  pc["mc"] # "oa_resp" =>
    (oa_sent # <<>> =>
       /\ oa_sent[1].type = "session.update"
       /\ WholeRequests(oa_sent))

\* C28: what was sent to the generation provider is nothing, or one
\* session.update and then requests, each a conversation.item.create followed
\* at once by the response.create of the same event; only the last
\* conversation.item.create may stand alone, while its response.create is
\* still to be sent or after that send failed on a closed connection or was
\* cancelled.
C28_UpdateThenRequests ==
  oa_sent # <<>> =>
    /\ oa_sent[1].type = "session.update"
    /\ \A m \in 2 .. Len(oa_sent) :
         /\ oa_sent[m].type \in {"conversation.item.create", "response.create"}
         /\ oa_sent[m].type = "response.create" =>
              /\ oa_sent[m - 1].type = "conversation.item.create"
              /\ oa_sent[m - 1].src = oa_sent[m].src
         /\ (oa_sent[m].type = "conversation.item.create" /\ m < Len(oa_sent)) =>
              oa_sent[m + 1].type = "response.create"
         /\ (oa_sent[m].type = "conversation.item.create" /\ m = Len(oa_sent)) =>
              \/ pc["mc"] = "oa_resp"
              \/ pc["mc"] = "cancelled"
              \/ openai_ws # "open"

\* a whole request, then an item whose response.create failed on the closed
\* connection
C28_Witness ==
  /\ Len(oa_sent) = 4
  /\ oa_sent[4].type = "conversation.item.create"
  /\ pc["mc"] = "get"
  /\ openai_ws \in {"closed_ok", "closed_err"}

\* C29: in speed mode no handler of the speech provider's events has raised.
C29_UtteranceEndHarmless ==
  mode = "speed" => ~dg_raised

\* C30: in speed mode transcript_parts holds the texts of the non-empty final
\* fragments delivered so far, in their order, one entry for each and as many
\* as there are transcript_final events enqueued.
C30_PartsAreAllFinals ==
  mode = "speed" =>
    /\ Len(transcript_parts) = n_final
    /\ Len(transcript_parts) = Len(FinalsEnqueued)
    /\ \A i \in 1 .. Len(transcript_parts) :
         transcript_parts[i] = FinalsEnqueued[i].frag.text

\* two final fragments and an utterance-end were delivered in speed mode
C30_Witness ==
  /\ mode = "speed"
  /\ Len(transcript_parts) = 2
  /\ dg_raised

====
